---- MODULE Spec2Model ----
(***************************************************************************)
(* Semantic tag codec (tag-writer), concept registry and vault indexer of  *)
(* the Obsidian semantic plugin, as state machines.                        *)
(*                                                                         *)
(* Text is a sequence of atoms.  An atom is a one-character string, or a   *)
(* longer string that stands for exactly that run of characters (a type    *)
(* name, an id, a block marker).  No atom used below can be produced by    *)
(* joining parts of its neighbours, so searching for a token in the text   *)
(* is searching for its atoms.                                             *)
(***************************************************************************)
EXTENDS Integers, Sequences, FiniteSets, TLC

VARIABLES
  concepts,     \* ConceptRegistry.data.concepts: entries in key insertion order
  uuidIndex,    \* ConceptRegistry.data.uuidIndex: uuid -> normalized label
  dirty,        \* ConceptRegistry.dirty
  loaded,       \* ConceptRegistry.loaded
  minted,       \* number of ids generateUUID has handed out
  firstId,      \* history: normalized key -> id its first getOrCreateUUID returned
  registryFile, \* the registry file in the vault
  calls,        \* the load and save calls made so far and where they stand
  savedIds,     \* history: key -> id it resolved to when the last save() that
                \* completed without an error was called
  budget,       \* calls the environment may still make (bounds the behaviours)
  last,         \* history: the last call, its arguments and its result
  content,      \* text of the note the tag-writer functions work on
  uuidRegistry, \* globalUUIDRegistry.registry: uuid -> label
  vault,        \* the markdown files of the vault, in getMarkdownFiles order
  config,       \* VaultIndexer.config
  abortController, \* VaultIndexer.abortController: 0 (null) or the run that made it
  aborted,      \* signal.aborted of the controller each run made
  currentIndex, \* VaultIndexer.currentIndex
  runs          \* the buildIndex calls made so far: their locals and where they stand

vars == <<concepts, uuidIndex, dirty, loaded, minted, firstId, registryFile, calls,
          savedIds,
          budget, last,
          content, uuidRegistry, vault, config, abortController, aborted, currentIndex,
          runs>>

fileVars == <<registryFile, calls, savedIds>>
regVars == <<concepts, uuidIndex, dirty, loaded, minted, firstId, fileVars>>
tagVars == <<content, uuidRegistry>>
idxVars == <<vault, config, abortController, aborted, currentIndex, runs>>

\* JavaScript's undefined, where a string is expected
Undefined == "undefined"

\* JavaScript's undefined, where a registry entry is expected
NoEntry == [uuid |-> Undefined]

(***************************************************************************)
(* Strings                                                                 *)
(***************************************************************************)

\* String.prototype.toLowerCase on one character of the model's alphabet
LowerChar(c) ==
  CASE c = "A" -> "a"
    [] c = "B" -> "b"
    [] c = "C" -> "c"
    [] c = "Trash" -> "trash"
    [] c = "_Archive" -> "_archive"
    [] OTHER -> c

ToLowerCase(s) == [i \in DOMAIN s |-> LowerChar(s[i])]

\* \s of a JavaScript regular expression
IsSpace(c) == c \in {" ", "\t", "\n"}

\* \w of a JavaScript regular expression
IsWordChar(c) == c \in {"a", "b", "c", "A", "B", "C", "x", "_", "1"}

RECURSIVE TrimStart(_)
TrimStart(s) ==
  IF s # <<>> /\ IsSpace(Head(s)) THEN TrimStart(Tail(s)) ELSE s

RECURSIVE TrimEnd(_)
TrimEnd(s) ==
  IF s # <<>> /\ IsSpace(s[Len(s)]) THEN TrimEnd(SubSeq(s, 1, Len(s) - 1)) ELSE s

Trim(s) == TrimEnd(TrimStart(s))

\* s.replace(/\s+/g, ' ')
RECURSIVE CollapseSpaces(_)
CollapseSpaces(s) ==
  IF s = <<>> THEN <<>>
  ELSE IF IsSpace(Head(s))
       THEN <<" ">> \o CollapseSpaces(TrimStart(s))
       ELSE <<Head(s)>> \o CollapseSpaces(Tail(s))

KeepsHyphen(c) == IsWordChar(c) \/ IsSpace(c) \/ c = "-"

\* ConceptRegistry.normalizeLabel
RegNormalizeLabel(label) ==
  Trim(CollapseSpaces(SelectSeq(Trim(ToLowerCase(label)), KeepsHyphen)))

(***************************************************************************)
(* Concept registry                                                        *)
(***************************************************************************)

\* bound on the number of registry calls in one behaviour of Spec
MaxOps == 6

\* bound on the number of registry calls in one behaviour of SpecMerge
MaxMergeOps == 4

\* labels passed to the registry
Labels == { <<"a">>, <<"A">>, <<"b">>, <<"c">> }

\* (type, sourceFile) pairs passed to getOrCreateUUID
Sources == { <<"Axiom", "docA">>, <<"Claim", "docB">> }

\* generateUUID: the n-th id handed out (ids are random 122-bit values; two
\* calls are taken never to collide)
UuidNames == <<"u1", "u2", "u3", "u4", "u5", "u6", "u7", "u8", "u9">>
generateUUID(n) == UuidNames[n]

\* this.data.concepts[key]
Lookup(cs, key) ==
  IF \E i \in DOMAIN cs : cs[i].normalizedLabel = key
  THEN cs[CHOOSE i \in DOMAIN cs : cs[i].normalizedLabel = key]
  ELSE NoEntry

InSeq(x, s) == \E i \in DOMAIN s : s[i] = x

\* the first entry, in Object.entries order, whose aliases include key
AliasOwner(cs, key) ==
  IF \E i \in DOMAIN cs : InSeq(key, cs[i].aliases)
  THEN cs[CHOOSE i \in DOMAIN cs :
            /\ InSeq(key, cs[i].aliases)
            /\ \A j \in 1..(i - 1) : ~InSeq(key, cs[j].aliases)]
  ELSE NoEntry

\* ConceptRegistry.getUUID
getUUID(cs, label) == Lookup(cs, RegNormalizeLabel(label)).uuid

\* ConceptRegistry.getByUUID
getByUUID(cs, idx, uuid) ==
  IF uuid \in DOMAIN idx THEN Lookup(cs, idx[uuid]) ELSE NoEntry

\* the id getOrCreateUUID returns when it creates nothing, or Undefined
Resolve(cs, key) ==
  IF Lookup(cs, key) # NoEntry THEN Lookup(cs, key).uuid
  ELSE AliasOwner(cs, key).uuid

\* obj[key] = value on a plain object
Put(f, k, v) == [x \in DOMAIN f \cup {k} |-> IF x = k THEN v ELSE f[x]]

\* delete obj[key]
Delete(f, k) == [x \in DOMAIN f \ {k} |-> f[x]]

\* ConceptRegistry.getOrCreateUUID
GetOrCreateUUID(label, type, sourceFile) ==
  LET normalized == RegNormalizeLabel(label)
      found == Resolve(concepts, normalized)
      uuid == generateUUID(minted + 1)
      ret == IF found # Undefined THEN found ELSE uuid
  IN /\ budget > 0
     /\ budget' = budget - 1
     /\ IF found # Undefined
        THEN UNCHANGED <<concepts, uuidIndex, dirty, minted>>
        ELSE /\ concepts' = Append(concepts,
                  [uuid |-> uuid, label |-> label, normalizedLabel |-> normalized,
                   type |-> type, firstSeenFile |-> sourceFile, aliases |-> <<>>])
             /\ uuidIndex' = Put(uuidIndex, uuid, normalized)
             /\ dirty' = TRUE
             /\ minted' = minted + 1
     /\ firstId' = IF normalized \in DOMAIN firstId THEN firstId
                   ELSE Put(firstId, normalized, ret)
     /\ last' = [op |-> "getOrCreateUUID", key |-> normalized, ret |-> ret,
                 created |-> (found = Undefined),
                 first |-> (normalized \notin DOMAIN firstId)]
     /\ UNCHANGED <<loaded, fileVars, tagVars, idxVars>>

\* ConceptRegistry.addAlias
AddAlias(label, alias) ==
  LET normalized == RegNormalizeLabel(label)
      normalizedAlias == RegNormalizeLabel(alias)
      entry == Lookup(concepts, normalized)
  IN /\ budget > 0
     /\ budget' = budget - 1
     /\ IF entry = NoEntry
        THEN /\ UNCHANGED <<concepts, dirty>>
             /\ last' = [op |-> "addAlias", key |-> normalized,
                         alias |-> normalizedAlias, ret |-> FALSE, added |-> FALSE]
        ELSE /\ IF ~InSeq(normalizedAlias, entry.aliases)
                THEN /\ concepts' = [i \in DOMAIN concepts |->
                          IF concepts[i].normalizedLabel = normalized
                          THEN [concepts[i] EXCEPT !.aliases = Append(@, normalizedAlias)]
                          ELSE concepts[i]]
                     /\ dirty' = TRUE
                ELSE UNCHANGED <<concepts, dirty>>
             /\ last' = [op |-> "addAlias", key |-> normalized,
                         alias |-> normalizedAlias, ret |-> TRUE,
                         added |-> ~InSeq(normalizedAlias, entry.aliases)]
     /\ UNCHANGED <<uuidIndex, loaded, minted, firstId, fileVars, tagVars, idxVars>>

\* [...new Set(aliases)]: the first occurrence of each element, in order
RECURSIVE Dedup(_)
Dedup(s) ==
  IF s = <<>> THEN <<>>
  ELSE LET init == Dedup(SubSeq(s, 1, Len(s) - 1))
       IN IF InSeq(s[Len(s)], init) THEN init ELSE Append(init, s[Len(s)])

\* mergeConcepts with the two deletes given keepEntry and keepNorm
MergeConcepts_RemovesKeep(keepLabel, mergeLabel) ==
  LET keepNorm == RegNormalizeLabel(keepLabel)
      mergeNorm == RegNormalizeLabel(mergeLabel)
      keepEntry == Lookup(concepts, keepNorm)
      mergeEntry == Lookup(concepts, mergeNorm)
      aliases == Dedup(Append(keepEntry.aliases, mergeNorm) \o
                       (IF keepNorm = mergeNorm
                        THEN Append(keepEntry.aliases, mergeNorm)
                        ELSE mergeEntry.aliases))
      withAliases == [i \in DOMAIN concepts |->
                        IF concepts[i].normalizedLabel = keepNorm
                        THEN [concepts[i] EXCEPT !.aliases = aliases]
                        ELSE concepts[i]]
      NotKept(e) == e.normalizedLabel # keepNorm
      info == [op |-> "mergeConcepts", keepLabel |-> keepLabel, mergeLabel |-> mergeLabel,
               keepUuid |-> keepEntry.uuid, mergeUuid |-> mergeEntry.uuid,
               conceptsBefore |-> concepts, uuidIndexBefore |-> uuidIndex,
               dirtyBefore |-> dirty]
  IN /\ budget > 0
     /\ budget' = budget - 1
     /\ IF keepEntry = NoEntry \/ mergeEntry = NoEntry
        THEN /\ UNCHANGED <<concepts, uuidIndex, dirty>>
             /\ last' = [info EXCEPT !.keepUuid = keepEntry.uuid] @@ [ret |-> FALSE]
        ELSE /\ concepts' = SelectSeq(withAliases, NotKept)
             /\ uuidIndex' = Delete(uuidIndex, keepEntry.uuid)
             /\ dirty' = TRUE
             /\ last' = info @@ [ret |-> TRUE]
     /\ UNCHANGED <<loaded, minted, firstId, fileVars, tagVars, idxVars>>

\* ConceptRegistry.mergeConcepts
MergeConcepts(keepLabel, mergeLabel) ==
  LET keepNorm == RegNormalizeLabel(keepLabel)
      mergeNorm == RegNormalizeLabel(mergeLabel)
      keepEntry == Lookup(concepts, keepNorm)
      mergeEntry == Lookup(concepts, mergeNorm)
      \* keepEntry and mergeEntry are one object when the keys are equal
      aliases == Dedup(Append(keepEntry.aliases, mergeNorm) \o
                       (IF keepNorm = mergeNorm
                        THEN Append(keepEntry.aliases, mergeNorm)
                        ELSE mergeEntry.aliases))
      withAliases == [i \in DOMAIN concepts |->
                        IF concepts[i].normalizedLabel = keepNorm
                        THEN [concepts[i] EXCEPT !.aliases = aliases]
                        ELSE concepts[i]]
      NotMerged(e) == e.normalizedLabel # mergeNorm
      info == [op |-> "mergeConcepts", keepLabel |-> keepLabel, mergeLabel |-> mergeLabel,
               keepUuid |-> keepEntry.uuid, mergeUuid |-> mergeEntry.uuid,
               conceptsBefore |-> concepts, uuidIndexBefore |-> uuidIndex,
               dirtyBefore |-> dirty]
  IN /\ budget > 0
     /\ budget' = budget - 1
     /\ IF keepEntry = NoEntry \/ mergeEntry = NoEntry
        THEN /\ UNCHANGED <<concepts, uuidIndex, dirty>>
             /\ last' = [info EXCEPT !.keepUuid = keepEntry.uuid] @@ [ret |-> FALSE]
        ELSE /\ concepts' = SelectSeq(withAliases, NotMerged)
             /\ uuidIndex' = Delete(uuidIndex, mergeEntry.uuid)
             /\ dirty' = TRUE
             /\ last' = info @@ [ret |-> TRUE]
     /\ UNCHANGED <<loaded, minted, firstId, fileVars, tagVars, idxVars>>

\* { ...entry.metadata, ...metadata } put on the entry
WithMetadata(entry, metadata) ==
  LET old == IF "metadata" \in DOMAIN entry THEN entry.metadata ELSE <<>>
      merged == [k \in DOMAIN old \cup DOMAIN metadata |->
                   IF k \in DOMAIN metadata THEN metadata[k] ELSE old[k]]
  IN [f \in DOMAIN entry \cup {"metadata"} |-> IF f = "metadata" THEN merged ELSE entry[f]]

\* ConceptRegistry.updateMetadata
UpdateMetadata(label, metadata) ==
  LET normalized == RegNormalizeLabel(label)
      entry == Lookup(concepts, normalized)
  IN /\ budget > 0
     /\ budget' = budget - 1
     /\ IF entry = NoEntry
        THEN UNCHANGED <<concepts, dirty>>
        ELSE /\ concepts' = [i \in DOMAIN concepts |->
                               IF concepts[i].normalizedLabel = normalized
                               THEN WithMetadata(concepts[i], metadata)
                               ELSE concepts[i]]
             /\ dirty' = TRUE
     /\ last' = [op |-> "updateMetadata", key |-> normalized, ret |-> (entry # NoEntry)]
     /\ UNCHANGED <<uuidIndex, loaded, minted, firstId, fileVars, tagVars, idxVars>>

\* this.data.concepts[key] = entry: in place when the key is there, else at the end
PutEntry(cs, entry) ==
  IF Lookup(cs, entry.normalizedLabel) # NoEntry
  THEN [i \in DOMAIN cs |->
          IF cs[i].normalizedLabel = entry.normalizedLabel THEN entry ELSE cs[i]]
  ELSE Append(cs, entry)

\* the loop of importJSON over the imported entries
RECURSIVE ImportAll(_, _, _)
ImportAll(data, entries, overwrite) ==
  IF entries = <<>> THEN data
  ELSE LET entry == Head(entries)
           taken == overwrite \/ Lookup(data.concepts, entry.normalizedLabel) = NoEntry
       IN ImportAll(IF taken
                    THEN [concepts |-> PutEntry(data.concepts, entry),
                          uuidIndex |-> Put(data.uuidIndex, entry.uuid, entry.normalizedLabel),
                          count |-> data.count + 1]
                    ELSE data,
                    Tail(entries), overwrite)

\* ConceptRegistry.importJSON of a text that is JSON
ImportJSON(imported, overwrite) ==
  LET result == ImportAll([concepts |-> concepts, uuidIndex |-> uuidIndex, count |-> 0],
                          imported.concepts, overwrite)
  IN /\ budget > 0
     /\ budget' = budget - 1
     /\ concepts' = result.concepts
     /\ uuidIndex' = result.uuidIndex
     /\ dirty' = TRUE
     /\ last' = [op |-> "importJSON", overwrite |-> overwrite, ret |-> result.count]
     /\ UNCHANGED <<loaded, minted, firstId, fileVars, tagVars, idxVars>>

\* ConceptRegistry.clear
Clear ==
  /\ budget > 0
  /\ budget' = budget - 1
  /\ concepts' = <<>>
  /\ uuidIndex' = <<>>
  /\ dirty' = TRUE
  /\ last' = [op |-> "clear"]
  /\ UNCHANGED <<loaded, minted, firstId, fileVars, tagVars, idxVars>>

REGISTRY_VERSION == "1.0.0"

\* the vault without a registry file, and a registry file that is not JSON
NoFile == [exists |-> FALSE]
CorruptFile == [exists |-> TRUE, json |-> FALSE]

\* JSON.stringify(this.data) as a file: the version (always REGISTRY_VERSION
\* in a registry at rest), the entries in key order, the reverse index
Stringify(cs, idx) ==
  [exists |-> TRUE, json |-> TRUE, version |-> REGISTRY_VERSION,
   concepts |-> cs, uuidIndex |-> idx]

\* save() up to its write: nothing when the guard returns, else the call
\* suspended in vault.modify / vault.create (caller: the load that awaits it)
StartedSave(caller) ==
  IF ~dirty /\ loaded THEN <<>>
  ELSE <<[op |-> "save", pc |-> "write", caller |-> caller,
          content |-> Stringify(concepts, uuidIndex),
          dirtyAtCall |-> dirty, loadedAtCall |-> loaded]>>

\* the keys a registry resolves (primary keys and aliases), each with its id
ResolvedIds(cs) ==
  [k \in {cs[i].normalizedLabel : i \in DOMAIN cs} \cup
          UNION {{cs[i].aliases[j] : j \in DOMAIN cs[i].aliases} : i \in DOMAIN cs} |->
     Resolve(cs, k)]

\* ConceptRegistry.save, called by the host, up to its first await
Save ==
  /\ budget > 0
  /\ budget' = budget - 1
  /\ calls' = calls \o StartedSave(0)
  /\ savedIds' = IF StartedSave(0) = <<>> THEN ResolvedIds(concepts) ELSE savedIds
  /\ last' = [op |-> "save", started |-> (StartedSave(0) # <<>>)]
  /\ UNCHANGED <<concepts, uuidIndex, dirty, loaded, minted, firstId, registryFile,
                 tagVars, idxVars>>

\* the write of a save returns or rejects; a load that awaited the save goes on
FinishSave(id, ok) ==
  /\ id \in DOMAIN calls
  /\ calls[id].op = "save"
  /\ calls[id].pc = "write"
  /\ LET caller == calls[id].caller
     IN /\ calls' = [k \in DOMAIN calls |->
                       IF k = id \/ k = caller THEN [calls[k] EXCEPT !.pc = "done"]
                       ELSE calls[k]]
        /\ loaded' = IF caller # 0 THEN TRUE ELSE loaded
  /\ IF ok
     THEN /\ registryFile' = calls[id].content
          /\ dirty' = FALSE
          /\ savedIds' = ResolvedIds(calls[id].content.concepts)
     ELSE UNCHANGED <<registryFile, dirty, savedIds>>
  /\ last' = [op |-> "write", call |-> id, ok |-> ok]
  /\ UNCHANGED <<concepts, uuidIndex, minted, firstId, budget, tagVars, idxVars>>

\* ConceptRegistry.load up to its first await
Load ==
  /\ budget > 0
  /\ budget' = budget - 1
  /\ IF registryFile.exists
     THEN /\ calls' = Append(calls, [op |-> "load", pc |-> "read"])
          /\ UNCHANGED <<concepts, uuidIndex, loaded, savedIds>>
     ELSE /\ concepts' = <<>>
          /\ uuidIndex' = <<>>
          /\ IF StartedSave(Len(calls) + 1) = <<>>
             THEN /\ calls' = Append(calls, [op |-> "load", pc |-> "done"])
                  /\ loaded' = TRUE
                  /\ savedIds' = ResolvedIds(<<>>)
             ELSE /\ calls' = Append(calls, [op |-> "load", pc |-> "save"])
                               \o [StartedSave(Len(calls) + 1) EXCEPT
                                     ![1].content = Stringify(<<>>, <<>>)]
                  /\ UNCHANGED <<loaded, savedIds>>
  /\ last' = [op |-> "load"]
  /\ UNCHANGED <<dirty, minted, firstId, registryFile, tagVars, idxVars>>

\* the read of a load returns or rejects: the parsed data, or the catch block
FinishRead(id, ok) ==
  /\ id \in DOMAIN calls
  /\ calls[id].op = "load"
  /\ calls[id].pc = "read"
  /\ calls' = [calls EXCEPT ![id].pc = "done"]
  /\ IF ok /\ registryFile.exists /\ registryFile.json
     THEN /\ concepts' = registryFile.concepts
          /\ uuidIndex' = registryFile.uuidIndex
          /\ dirty' = IF registryFile.version # REGISTRY_VERSION THEN TRUE ELSE dirty
     ELSE /\ concepts' = <<>>
          /\ uuidIndex' = <<>>
          /\ UNCHANGED dirty
  /\ loaded' = TRUE
  /\ last' = [op |-> "read", call |-> id, ok |-> ok]
  /\ UNCHANGED <<minted, firstId, registryFile, savedIds, budget, tagVars, idxVars>>

(***************************************************************************)
(* Tag writer                                                              *)
(***************************************************************************)

\* bound on the number of tag-writer calls in one behaviour
MaxWrites == 3

\* null and undefined in a string-typed field: values no text is equal to
Null == <<"<null>">>
NoString == <<"<undefined>">>

\* the constant head of TAG_REGEX and of formatTag's template
TAG_OPEN == "%%tag::"
\* the constant tail of TAG_REGEX and of formatTag's template
PERCENTS == "%%"
START_MARK == "%%--- SEMANTIC TAGS ---%%"
END_MARK == "%%--- END SEMANTIC TAGS ---%%"
TAG_BLOCK_START == <<"\n", "\n", START_MARK, "\n">>
TAG_BLOCK_END == <<"\n", END_MARK>>

\* the atoms that hold a ':', a '%' (each of them begins with "%%"), a '"'
HasColon == {":", TAG_OPEN}
HasPercent == {PERCENTS, TAG_OPEN, START_MARK, END_MARK}
HasQuote == {"\""}

\* a value JavaScript takes for false in a condition
Falsy(v) == v \in {Null, NoString, <<>>}

\* formatTag
formatTag(tag) ==
  LET parentPart == IF Falsy(tag.parentUuid) THEN <<"null">> ELSE tag.parentUuid
      typePart == IF ~Falsy(tag.customType)
                  THEN <<"Custom", ":">> \o tag.customType
                  ELSE tag.type
  IN <<TAG_OPEN>> \o typePart \o <<":", ":">> \o tag.uuid \o <<":", ":", "\"">>
       \o tag.label \o <<"\"", ":", ":">> \o parentPart \o <<PERCENTS>>

\* whether the atoms of lit stand in text from position p on
Lit(text, p, lit) ==
  /\ p >= 1
  /\ p + Len(lit) - 1 <= Len(text)
  /\ \A i \in 1..Len(lit) : text[p + i - 1] = lit[i]

\* where a greedy [^...]* that starts at p stops: the first position from p on
\* that holds an excluded character, or the end of the line
RunEnd(line, p, excluded) ==
  LET stops == {q \in p..Len(line) : line[q] \in excluded}
  IN IF stops = {} THEN Len(line) + 1
     ELSE CHOOSE q \in stops : \A r \in stops : q <= r

\* TAG_REGEX tried at position p of a line:
\* %%tag::([^:]+)::([^:]+)::"([^"]+)"::([^%]*)%%
MatchAt(line, p) ==
  LET t1 == p + 1
      t2 == RunEnd(line, t1, HasColon)
      u1 == t2 + 2
      u2 == RunEnd(line, u1, HasColon)
      l1 == u2 + 3
      l2 == RunEnd(line, l1, HasQuote)
      q1 == l2 + 3
      q2 == RunEnd(line, q1, HasPercent)
  IN IF /\ line[p] = TAG_OPEN
        /\ t2 > t1 /\ Lit(line, t2, <<":", ":">>)
        /\ u2 > u1 /\ Lit(line, u2, <<":", ":", "\"">>)
        /\ l2 > l1 /\ Lit(line, l2, <<"\"", ":", ":">>)
        /\ q2 <= Len(line)
     THEN [ok |-> TRUE,
           type |-> SubSeq(line, t1, t2 - 1),
           uuid |-> SubSeq(line, u1, u2 - 1),
           label |-> SubSeq(line, l1, l2 - 1),
           parent |-> SubSeq(line, q1, q2 - 1),
           next |-> q2 + 1]
     ELSE [ok |-> FALSE]

\* the successive TAG_REGEX.exec matches of one line, from position p on
RECURSIVE LineMatches(_, _)
LineMatches(line, p) ==
  IF p > Len(line) THEN <<>>
  ELSE LET m == MatchAt(line, p)
       IN IF m.ok THEN <<m>> \o LineMatches(line, m.next)
          ELSE LineMatches(line, p + 1)

\* content.split('\n')
RECURSIVE SplitLines(_)
SplitLines(text) ==
  LET nl == RunEnd(text, 1, {"\n"})
  IN IF nl > Len(text) THEN <<text>>
     ELSE <<SubSeq(text, 1, nl - 1)>> \o SplitLines(SubSeq(text, nl + 1, Len(text)))

StartsWith(s, prefix) == Lit(s, 1, prefix)

\* the SemanticTag parseTags builds from one match
TagOfMatch(m) ==
  LET custom == StartsWith(m.type, <<"Custom", ":">>)
  IN [type |-> IF custom THEN <<"Custom">> ELSE m.type,
      uuid |-> m.uuid,
      label |-> m.label,
      parentUuid |-> IF m.parent = <<"null">> THEN Null ELSE m.parent,
      customType |-> IF custom THEN SubSeq(m.type, 3, Len(m.type)) ELSE NoString]

RECURSIVE ParseLines(_, _)
ParseLines(lines, index) ==
  IF index > Len(lines) THEN <<>>
  ELSE LET ms == LineMatches(lines[index], 1)
       IN [k \in DOMAIN ms |-> [tag |-> TagOfMatch(ms[k]), lineNumber |-> index]]
            \o ParseLines(lines, index + 1)

\* parseTags: the ParsedTag list (the raw text of each match is left out)
parseTags(text) == ParseLines(SplitLines(text), 1)

TagsOf(parsed) == [k \in DOMAIN parsed |-> parsed[k].tag]

\* globalUUIDRegistry.register for every tag parseTags found, in order
RECURSIVE RegisterAll(_, _)
RegisterAll(registry, tags) ==
  IF tags = <<>> THEN registry
  ELSE RegisterAll(Put(registry, Head(tags).uuid, Head(tags).label), Tail(tags))

\* String.prototype.indexOf, 1-based; 0 when lit does not occur
IndexOf(text, lit) ==
  LET hits == {p \in 1..Len(text) : Lit(text, p, lit)}
  IN IF hits = {} THEN 0 ELSE CHOOSE p \in hits : \A q \in hits : p <= q

\* hasTagBlock
hasTagBlock(text) == IndexOf(text, <<START_MARK>>) # 0

\* extractTagBlock (Null when a marker is missing)
extractTagBlock(text) ==
  LET startIndex == IndexOf(text, <<START_MARK>>)
      endIndex == IndexOf(text, <<END_MARK>>)
  IN IF startIndex = 0 \/ endIndex = 0 THEN Null
     ELSE SubSeq(text, startIndex, endIndex)

\* removeTagBlock
removeTagBlock(text) ==
  LET startIndex == IndexOf(text, <<"\n", "\n", START_MARK>>)
      endIndex == IndexOf(text, <<END_MARK>>)
  IN IF startIndex = 0 \/ endIndex = 0 THEN text
     ELSE SubSeq(text, 1, startIndex - 1) \o SubSeq(text, endIndex + 1, Len(text))

RECURSIVE JoinLines(_)
JoinLines(parts) ==
  IF parts = <<>> THEN <<>>
  ELSE IF Len(parts) = 1 THEN parts[1]
  ELSE parts[1] \o <<"\n">> \o JoinLines(Tail(parts))

\* createTagBlock
createTagBlock(tags) ==
  IF tags = <<>> THEN <<>>
  ELSE TAG_BLOCK_START \o JoinLines([k \in DOMAIN tags |-> formatTag(tags[k])])
         \o TAG_BLOCK_END

HasUuid(tags, uuid) == \E k \in DOMAIN tags : tags[k].uuid = uuid

\* the text writeTags hands to vault.modify
WrittenText(text, tags, append) ==
  IF append /\ hasTagBlock(text)
  THEN LET existingTags == TagsOf(parseTags(text))
           newTags == SelectSeq(tags, LAMBDA t : ~HasUuid(existingTags, t.uuid))
       IN TrimEnd(removeTagBlock(text)) \o createTagBlock(existingTags \o newTags)
  ELSE IF hasTagBlock(text)
  THEN TrimEnd(removeTagBlock(text)) \o createTagBlock(tags)
  ELSE TrimEnd(text) \o createTagBlock(tags)

\* writeTags on the note (vault.read, the rewrite, vault.modify; no other
\* writer touches the note in between)
WriteTags(tags, append) ==
  /\ budget > 0
  /\ budget' = budget - 1
  /\ content' = WrittenText(content, tags, append)
  /\ uuidRegistry' = IF append /\ hasTagBlock(content)
                     THEN RegisterAll(uuidRegistry, TagsOf(parseTags(content)))
                     ELSE uuidRegistry
  /\ last' = [op |-> "writeTags", tags |-> tags, append |-> append,
              hadBlock |-> hasTagBlock(content), before |-> content,
              prev |-> IF last.op = "writeTags"
                       THEN [op |-> last.op, tags |-> last.tags, append |-> last.append,
                             result |-> TagsOf(parseTags(content))]
                       ELSE [op |-> last.op]]
  /\ UNCHANGED <<regVars, idxVars>>

\* removeTagBlock applied to the note's text
RemoveTagBlock ==
  /\ budget > 0
  /\ budget' = budget - 1
  /\ content' = removeTagBlock(content)
  /\ last' = [op |-> "removeTagBlock", before |-> content]
  /\ UNCHANGED <<regVars, idxVars, uuidRegistry>>

\* the text removeTags hands to vault.modify
RemovedText(text, uuidsToRemove) ==
  LET existingTags == parseTags(text)
      remainingTags == SelectSeq(TagsOf(existingTags), LAMBDA t : t.uuid \notin uuidsToRemove)
      newContent == removeTagBlock(text)
  IN IF Len(remainingTags) > 0
     THEN TrimEnd(newContent) \o createTagBlock(remainingTags)
     ELSE newContent

\* removeTags on the note
RemoveTags(uuidsToRemove) ==
  /\ budget > 0
  /\ budget' = budget - 1
  /\ content' = RemovedText(content, uuidsToRemove)
  /\ uuidRegistry' = RegisterAll(uuidRegistry, TagsOf(parseTags(content)))
  /\ last' = [op |-> "removeTags", uuids |-> uuidsToRemove, before |-> content]
  /\ UNCHANGED <<regVars, idxVars>>

\* { ...tag, ...updates, uuid }
Updated(tag, updates, uuid) ==
  [f \in DOMAIN tag |->
     IF f = "uuid" THEN uuid
     ELSE IF f \in DOMAIN updates THEN updates[f] ELSE tag[f]]

\* the text updateTag hands to vault.modify
UpdatedText(text, uuid, updates) ==
  LET existingTags == TagsOf(parseTags(text))
      updatedTags == [k \in DOMAIN existingTags |->
                        IF existingTags[k].uuid = uuid
                        THEN Updated(existingTags[k], updates, uuid)
                        ELSE existingTags[k]]
  IN TrimEnd(removeTagBlock(text)) \o createTagBlock(updatedTags)

\* updateTag on the note
UpdateTag(uuid, updates) ==
  /\ budget > 0
  /\ budget' = budget - 1
  /\ content' = UpdatedText(content, uuid, updates)
  /\ uuidRegistry' = RegisterAll(uuidRegistry, TagsOf(parseTags(content)))
  /\ last' = [op |-> "updateTag", uuid |-> uuid, updates |-> updates, before |-> content]
  /\ UNCHANGED <<regVars, idxVars>>

\* tags handed to writeTags
TagAxiomA == [type |-> <<"Axiom">>, uuid |-> <<"u1">>, label |-> <<"a">>,
              parentUuid |-> Null, customType |-> NoString]
TagClaimB == [type |-> <<"Claim">>, uuid |-> <<"u2">>, label |-> <<"b", " ", "c">>,
              parentUuid |-> <<"u1">>, customType |-> NoString]
TagCustomC == [type |-> <<"Custom">>, uuid |-> <<"u3">>, label |-> <<"c">>,
               parentUuid |-> Null, customType |-> <<"Foo">>]
TagAxiomA2 == [type |-> <<"Claim">>, uuid |-> <<"u1">>, label |-> <<"A">>,
               parentUuid |-> Null, customType |-> NoString]

TagSets == { <<>>, <<TagAxiomA>>, <<TagClaimB>>, <<TagAxiomA, TagClaimB>>,
             <<TagCustomC>>, <<TagClaimB, TagCustomC>>, <<TagAxiomA2>> }

\* notes without tags, and notes whose tags all stand in one tag block at the end
CleanDocs ==
  { <<>>, <<"x">>, <<"x", "\n">>,
    <<"x">> \o createTagBlock(<<TagAxiomA>>),
    <<"x">> \o createTagBlock(<<TagClaimB, TagAxiomA>>),
    createTagBlock(<<TagClaimB>>) }

\* notes with a tag outside the tag block, or without a block
StrayDocs ==
  { formatTag(TagAxiomA) \o <<"\n", "x">>,
    formatTag(TagAxiomA) \o <<"\n", "x">> \o createTagBlock(<<TagClaimB>>) }

\* notes with one tag block that is followed by text, or whose start marker
\* stands after a single line break
LooseDocs ==
  { <<"x">> \o createTagBlock(<<TagAxiomA>>) \o <<"\n", "y">>,
    <<"x", "\n", START_MARK, "\n">> \o formatTag(TagAxiomA) \o TAG_BLOCK_END }

\* bound on the number of tag operations on one note
MaxDocOps == 2

\* the calls made on the note
DocTagSets == { <<>>, <<TagAxiomA>>, <<TagAxiomA2, TagClaimB>> }
DocUpdates == { [label |-> <<"c">>], [type |-> <<"Claim">>, uuid |-> <<"u3">>] }

\* bounds of the texts removeTagBlock is applied to, and of the applications
MaxPieces == 4
MaxRemoves == 2

\* what the texts are put together from: plain text, a line break, a start
\* marker after a blank line, a start marker without one, an end marker
Pieces ==
  { <<"x">>, <<"\n">>, <<"\n", "\n", START_MARK>>, <<START_MARK>>, <<END_MARK>> }

RECURSIVE TextsOf(_)
TextsOf(n) ==
  IF n = 0 THEN {<<>>}
  ELSE TextsOf(n - 1) \cup {t \o piece : t \in TextsOf(n - 1), piece \in Pieces}

Texts == TextsOf(MaxPieces)

(***************************************************************************)
(* Vault indexer                                                           *)
(***************************************************************************)

\* bound on the number of buildIndex and abort calls in one behaviour
MaxCalls == 3

\* the IndexerConfig the small indexer is constructed with (DEFAULT_CONFIG
\* with smaller numbers)
BatchSize == 2
MaxFiles == 3
MaxRelationFiles == 2
SmallConfig ==
  [maxFiles |-> MaxFiles, maxRelationFiles |-> MaxRelationFiles, batchSize |-> BatchSize]
ExcludePatterns ==
  { <<".obsidian">>, <<"node_modules">>, <<".git">>, <<"_archive">>,
    <<"_Archive">>, <<".trash">>, <<"Trash">> }

\* the relation loop yields after every row whose number is a multiple of this
RelationYieldRows == 50
\* related concepts are computed up to this number of concepts
RelatedConceptsCeiling == 500
\* a relatedConcepts list is cut to this length
RelatedConceptsMax == 20

NoIndex == [none |-> TRUE]

Min(a, b) == IF a < b THEN a ELSE b
Max(a, b) == IF a > b THEN a ELSE b

IsWordOrSpace(c) == IsWordChar(c) \/ IsSpace(c)

\* VaultIndexer.normalizeLabel
IdxNormalizeLabel(label) ==
  CollapseSpaces(SelectSeq(Trim(ToLowerCase(label)), IsWordOrSpace))

\* String.prototype.includes
Includes(text, lit) == IndexOf(text, lit) # 0

\* the exclusion filter of getFilesInScope
IsExcluded(path) ==
  \E pattern \in ExcludePatterns : Includes(ToLowerCase(path), ToLowerCase(pattern))

\* getFilesInScope: the paths of the files to index
getFilesInScope(files, scope, folderPath) ==
  LET InScope(f) ==
        /\ (scope = "folder" /\ ~Falsy(folderPath)) => StartsWith(f.path, folderPath)
        /\ ~IsExcluded(f.path)
      kept == SelectSeq(files, InScope)
      limited == IF Len(kept) > config.maxFiles THEN SubSeq(kept, 1, config.maxFiles)
                 ELSE kept
  IN [k \in DOMAIN limited |-> limited[k].path]

\* the file of the vault with this path
FileAt(files, path) == files[CHOOSE k \in DOMAIN files : files[k].path = path]

\* position of the concept with this key in the concept map, 0 when absent
ConceptAt(cs, key) ==
  IF \E k \in DOMAIN cs : cs[k].normalizedLabel = key
  THEN CHOOSE k \in DOMAIN cs : cs[k].normalizedLabel = key
  ELSE 0

\* the body of buildIndex's loop over the parsed tags of a file
IndexTag(cs, path, parsedTag) ==
  LET tag == parsedTag.tag
      normalizedLabel == IdxNormalizeLabel(tag.label)
      occurrence == [filePath |-> path, tagUuid |-> tag.uuid, tagType |-> tag.type,
                     label |-> tag.label, lineNumber |-> parsedTag.lineNumber]
      at == ConceptAt(cs, normalizedLabel)
  IN IF at # 0
     THEN LET occurrences == Append(cs[at].occurrences, occurrence)
          IN [cs EXCEPT ![at] =
                [@ EXCEPT !.occurrences = occurrences,
                          !.totalCount = @ + 1,
                          !.tagTypes = IF InSeq(tag.type, @) THEN @ ELSE Append(@, tag.type),
                          !.fileCount = Cardinality({occurrences[k].filePath :
                                                       k \in DOMAIN occurrences})]]
     ELSE Append(cs, [label |-> tag.label,
                      normalizedLabel |-> normalizedLabel,
                      occurrences |-> <<occurrence>>,
                      firstSeen |-> [filePath |-> path],
                      totalCount |-> 1,
                      fileCount |-> 1,
                      tagTypes |-> <<tag.type>>,
                      relatedConcepts |-> <<>>])

RECURSIVE IndexTags(_, _, _)
IndexTags(cs, path, parsed) ==
  IF parsed = <<>> THEN cs
  ELSE IndexTags(IndexTag(cs, path, Head(parsed)), path, Tail(parsed))

\* Map.prototype.set on the file index
SetFile(fileIndex, path, tags) ==
  IF \E k \in DOMAIN fileIndex : fileIndex[k].path = path
  THEN [k \in DOMAIN fileIndex |->
          IF fileIndex[k].path = path THEN [path |-> path, tags |-> tags]
          ELSE fileIndex[k]]
  ELSE Append(fileIndex, [path |-> path, tags |-> tags])

\* the try block of buildIndex once vault.read has returned the text
IndexFile(r, path, text) ==
  LET parsedTags == parseTags(text)
      tags == TagsOf(parsedTags)
  IN [r EXCEPT !.fileIndex = SetFile(@, path, tags),
               !.totalTags = @ + Len(tags),
               !.concepts = IndexTags(@, path, parsedTags)]

\* the return of buildIndex: the snapshot, kept in the run (timestamps and
\* the processing time are left out)
Finish(r, signalAborted) ==
  [r EXCEPT !.pc = "done",
            !.result =
              [metadata |-> [scope |-> r.scope,
                             scopePath |-> IF Falsy(r.folderPath) THEN <<"/">>
                                           ELSE r.folderPath,
                             totalFiles |-> Len(r.files),
                             totalTags |-> r.totalTags,
                             totalConcepts |-> Len(r.concepts),
                             skippedRelations |-> r.skippedRelations,
                             wasAborted |-> signalAborted,
                             warnings |-> r.warnings],
               concepts |-> r.concepts,
               relations |-> r.relations,
               fileIndex |-> r.fileIndex]]

\* the paths of the occurrences of a concept
FilesOf(entry) == {entry.occurrences[k].filePath : k \in DOMAIN entry.occurrences}

\* the related-concepts pass
RelatedConcepts(r, signalAborted) ==
  IF ~signalAborted /\ Len(r.concepts) <= RelatedConceptsCeiling
  THEN LET cs == r.concepts
           Related(k) ==
             LET others == SelectSeq(cs, LAMBDA o :
                               /\ o.normalizedLabel # cs[k].normalizedLabel
                               /\ FilesOf(cs[k]) \cap FilesOf(o) # {})
                 labels == Dedup([j \in DOMAIN others |-> others[j].label])
             IN SubSeq(labels, 1, Min(Len(labels), RelatedConceptsMax))
       IN Finish([r EXCEPT !.concepts =
                     [k \in DOMAIN cs |-> [cs[k] EXCEPT !.relatedConcepts = Related(k)]]],
                 signalAborted)
  ELSE Finish(r, signalAborted)

\* new Set(tags.map(t => normalizeLabel(t.label))), in insertion order
ConceptsInFile(tags) == Dedup([k \in DOMAIN tags |-> IdxNormalizeLabel(tags[k].label)])

\* row i paired with every other file, the files in front of it included
RowRelations_EveryOther(fileConcepts, i, first) ==
  LET all == [j \in DOMAIN fileConcepts |->
                LET concepts1 == fileConcepts[i].concepts
                    concepts2 == fileConcepts[j].concepts
                    sharedConcepts == SelectSeq(concepts1, LAMBDA c : InSeq(c, concepts2))
                IN [sourceFile |-> fileConcepts[i].path,
                    targetFile |-> fileConcepts[j].path,
                    sharedConcepts |-> sharedConcepts,
                    relationshipStrength |->
                      <<Len(sharedConcepts), Max(Len(concepts1), Len(concepts2))>>]]
  IN SelectSeq(all, LAMBDA rel :
       Len(rel.sharedConcepts) > 0 /\ rel.targetFile # rel.sourceFile)

\* the inner loop of the relation pass for row i: the relations pushed for
\* the pairs (i, j), j from first on
RECURSIVE RowRelations(_, _, _)
RowRelations(fileConcepts, i, first) ==
  IF first > Len(fileConcepts) THEN <<>>
  ELSE LET concepts1 == fileConcepts[i].concepts
           concepts2 == fileConcepts[first].concepts
           sharedConcepts == SelectSeq(concepts1, LAMBDA c : InSeq(c, concepts2))
           rest == RowRelations(fileConcepts, i, first + 1)
       IN IF Len(sharedConcepts) > 0
          THEN <<[sourceFile |-> fileConcepts[i].path,
                  targetFile |-> fileConcepts[first].path,
                  sharedConcepts |-> sharedConcepts,
                  \* the quotient sharedConcepts.length / maxConcepts
                  relationshipStrength |->
                    <<Len(sharedConcepts), Max(Len(concepts1), Len(concepts2))>>]>> \o rest
          ELSE rest

\* the outer loop of the relation pass from row r.relRow on, up to the next
\* sleep or to the return
RECURSIVE RelationLoop(_, _)
RelationLoop(r, signalAborted) ==
  IF r.relRow < Len(r.fileConcepts) /\ ~signalAborted
  THEN LET done == [r EXCEPT !.relations =
                        @ \o RowRelations(r.fileConcepts, r.relRow + 1, r.relRow + 2),
                      !.rowsCompared = @ + 1]
       IN IF r.relRow % RelationYieldRows = 0 /\ r.relRow > 0
          THEN [done EXCEPT !.pc = "relsleep"]
          ELSE RelationLoop([done EXCEPT !.relRow = @ + 1], signalAborted)
  ELSE RelatedConcepts(r, signalAborted)

\* buildIndex after the scan without the ceiling on the files with tags
Relations_NoCeiling(r, signalAborted) ==
  LET filesWithTags == SelectSeq(r.fileIndex, LAMBDA e : Len(e.tags) > 0)
  IN IF ~signalAborted
     THEN RelationLoop(
            [r EXCEPT !.fileConcepts =
                        [k \in DOMAIN filesWithTags |->
                           [path |-> filesWithTags[k].path,
                            concepts |-> ConceptsInFile(filesWithTags[k].tags)]],
                      !.relRow = 0],
            signalAborted)
     ELSE Finish(r, signalAborted)

\* buildIndex after the scan: relations, or the skip
Relations(r, signalAborted) ==
  LET filesWithTags == SelectSeq(r.fileIndex, LAMBDA e : Len(e.tags) > 0)
  IN IF ~signalAborted /\ Len(filesWithTags) <= config.maxRelationFiles
     THEN RelationLoop(
            [r EXCEPT !.fileConcepts =
                        [k \in DOMAIN filesWithTags |->
                           [path |-> filesWithTags[k].path,
                            concepts |-> ConceptsInFile(filesWithTags[k].tags)]],
                      !.relRow = 0],
            signalAborted)
     ELSE IF ~signalAborted
     THEN Finish([r EXCEPT !.skippedRelations = TRUE,
                           !.warnings = Append(@, "Skipped cross-file relations")],
                 signalAborted)
     ELSE Finish(r, signalAborted)

\* the end of a batch: sleep, or leave the scan after the last batch
AfterBatch(r, signalAborted) ==
  IF r.batchEnd < Len(r.files) THEN [r EXCEPT !.pc = "sleep"]
  ELSE Relations(r, signalAborted)

\* buildIndex called without onProgress, and an onProgress that returns until
\* its call number throwsAt (0: it always returns)
NoProgress == [given |-> FALSE]
Progress(throwsAt) == [given |-> TRUE, throwsAt |-> throwsAt]

\* if (onProgress) onProgress(i + 1, ...): the call throws
Throws(onProgress, current) == onProgress.given /\ onProgress.throwsAt = current

\* the head of the inner loop: read file i, or leave the batch
AtFile(r, signalAborted) ==
  IF r.i < r.batchEnd
  THEN IF signalAborted
       THEN AfterBatch([r EXCEPT !.sawAbortInScan = TRUE], signalAborted)
       ELSE IF Throws(r.onProgress, r.i + 1)
            THEN [r EXCEPT !.pc = "threw"]
            ELSE [r EXCEPT !.pc = "read"]
  ELSE AfterBatch(r, signalAborted)

\* the head of the outer loop with r.batchStart set
AtBatch(r, signalAborted) ==
  IF r.batchStart < Len(r.files)
  THEN IF signalAborted
       THEN Relations([r EXCEPT !.warnings = Append(@, "Indexing was aborted by user"),
                                !.sawAbortInScan = TRUE],
                      signalAborted)
       ELSE AtFile([r EXCEPT !.batchEnd = Min(r.batchStart + config.batchSize,
                                                 Len(r.files)),
                             !.i = r.batchStart],
                   signalAborted)
  ELSE Relations(r, signalAborted)

\* the pairs <<key, alias>> of a registry
AliasLinks(cs) ==
  UNION {{<<cs[k].normalizedLabel, cs[k].aliases[j]>> : j \in DOMAIN cs[k].aliases} :
           k \in DOMAIN cs}

\* the locals of a buildIndex call, with what the claims need to know of its past
NewRun(scope, folderPath, onProgress, files) ==
  [scope |-> scope, folderPath |-> folderPath, onProgress |-> onProgress, files |-> files,
   warnings |-> <<>>, concepts |-> <<>>, fileIndex |-> <<>>, relations |-> <<>>,
   totalTags |-> 0, skippedRelations |-> FALSE,
   batchStart |-> 0, batchEnd |-> 0, i |-> 0,
   fileConcepts |-> <<>>, relRow |-> 0,
   pc |-> "start", result |-> NoIndex,
   \* history
   scanned |-> 0,            \* files whose read has returned
   reads |-> <<>>,           \* those reads in order: the path, and whether it threw
   rowsCompared |-> 0,       \* rows of the relation loop gone through
   sawAbortInScan |-> FALSE, \* the scan loop left on signal.aborted
   superseded |-> FALSE,     \* buildIndex was called again while this run was in flight
   abortReq |-> [set |-> FALSE],  \* abort() was called while this run was in flight
   linksAtStart |-> AliasLinks(concepts)]  \* the registry's aliases at the call

\* the call has neither returned nor thrown
InFlight(r) == r.pc \notin {"done", "threw"}

\* this.abort(): the signals afterwards
AbortSignals ==
  IF abortController # 0 THEN [aborted EXCEPT ![abortController] = TRUE] ELSE aborted

\* a run has gone on to its next await or to its return
Continue(id, r) ==
  /\ runs' = [runs EXCEPT ![id] = r]
  /\ IF r.pc = "done"
     THEN /\ abortController' = 0
          /\ currentIndex' = r.result
     ELSE UNCHANGED <<abortController, currentIndex>>

\* VaultIndexer.buildIndex up to its first await (or to its return or throw)
BuildIndexProgress(scope, folderPath, onProgress) ==
  LET id == Len(runs) + 1
      r == AtBatch(NewRun(scope, folderPath, onProgress,
                          getFilesInScope(vault, scope, folderPath)),
                   FALSE)
  IN /\ budget > 0
     /\ budget' = budget - 1
     /\ aborted' = Append(AbortSignals, FALSE)
     /\ runs' = Append([k \in DOMAIN runs |->
                          IF InFlight(runs[k]) THEN [runs[k] EXCEPT !.superseded = TRUE]
                          ELSE runs[k]], r)
     /\ IF r.pc = "done"
        THEN /\ abortController' = 0
             /\ currentIndex' = r.result
        ELSE /\ abortController' = id
             /\ UNCHANGED currentIndex
     /\ last' = [op |-> "buildIndex", run |-> id]
     /\ UNCHANGED <<regVars, tagVars, vault, config>>

\* buildIndex called without a progress callback
BuildIndex(scope, folderPath) == BuildIndexProgress(scope, folderPath, NoProgress)

\* buildIndex with its try around the loops: a read that throws ends the scan
ResumeRead_FailureEndsScan(id, ok) ==
  /\ id \in DOMAIN runs
  /\ runs[id].pc = "read"
  /\ LET r == runs[id]
         path == r.files[r.i + 1]
         file == FileAt(vault, path)
         indexed == IF ok THEN IndexFile(r, path, file.content) ELSE r
     IN /\ ok \/ file.flaky
        /\ LET next == [indexed EXCEPT !.i = @ + 1, !.scanned = @ + 1,
                                       !.reads = Append(@, [path |-> path, ok |-> ok])]
           IN Continue(id, IF ok THEN AtFile(next, aborted[id])
                           ELSE Relations(next, aborted[id]))
        /\ uuidRegistry' = IF ok
                           THEN RegisterAll(uuidRegistry, TagsOf(parseTags(file.content)))
                           ELSE uuidRegistry
  /\ last' = [op |-> "read", run |-> id]
  /\ UNCHANGED <<regVars, content, vault, config, aborted, budget>>

\* await this.vault.read(file) returns or throws, and the run goes on
ResumeRead(id, ok) ==
  /\ id \in DOMAIN runs
  /\ runs[id].pc = "read"
  /\ LET r == runs[id]
         path == r.files[r.i + 1]
         file == FileAt(vault, path)
         indexed == IF ok THEN IndexFile(r, path, file.content) ELSE r
     IN /\ ok \/ file.flaky
        /\ Continue(id, AtFile([indexed EXCEPT !.i = @ + 1, !.scanned = @ + 1,
                                               !.reads = Append(@, [path |-> path,
                                                                    ok |-> ok])],
                               aborted[id]))
        /\ uuidRegistry' = IF ok
                           THEN RegisterAll(uuidRegistry, TagsOf(parseTags(file.content)))
                           ELSE uuidRegistry
  /\ last' = [op |-> "read", run |-> id]
  /\ UNCHANGED <<regVars, content, vault, config, aborted, budget>>

\* await this.sleep(batchDelayMs) returns: the next batch
ResumeSleep(id) ==
  /\ id \in DOMAIN runs
  /\ runs[id].pc = "sleep"
  /\ Continue(id, AtBatch([runs[id] EXCEPT !.batchStart = @ + config.batchSize], aborted[id]))
  /\ last' = [op |-> "sleep", run |-> id]
  /\ UNCHANGED <<regVars, tagVars, vault, config, aborted, budget>>

\* await this.sleep(1) in the relation loop returns: the next row
ResumeRelationSleep(id) ==
  /\ id \in DOMAIN runs
  /\ runs[id].pc = "relsleep"
  /\ Continue(id, RelationLoop([runs[id] EXCEPT !.relRow = @ + 1], aborted[id]))
  /\ last' = [op |-> "relsleep", run |-> id]
  /\ UNCHANGED <<regVars, tagVars, vault, config, aborted, budget>>

\* VaultIndexer.isIndexing
isIndexing == abortController # 0

\* VaultIndexer.abort, called by the host
Abort ==
  /\ budget > 0
  /\ budget' = budget - 1
  /\ aborted' = AbortSignals
  /\ abortController' = 0
  /\ runs' = [k \in DOMAIN runs |->
                IF InFlight(runs[k]) /\ ~runs[k].abortReq.set
                THEN [runs[k] EXCEPT !.abortReq =
                        [set |-> TRUE, pc |-> runs[k].pc, batchEnd |-> runs[k].batchEnd,
                         rows |-> runs[k].rowsCompared]]
                ELSE runs[k]]
  /\ last' = [op |-> "abort"]
  /\ UNCHANGED <<regVars, tagVars, vault, config, currentIndex>>

\* content.length: the characters of the atoms of a text
RECURSIVE Length(_)
Length(text) == IF text = <<>> THEN 0 ELSE Len(Head(text)) + Length(Tail(text))

\* estimateIndexCost from a loop head: suspended in the next read, or returned
\* with the counts its estimate is computed from
EstimateAt(c) ==
  IF c.i < Len(c.files) THEN [c EXCEPT !.pc = "read"]
  ELSE [c EXCEPT !.pc = "done",
                 !.result = [fileCount |-> Len(c.files),
                             totalCharacters |-> c.totalCharacters]]

\* VaultIndexer.estimateIndexCost up to its first await (or to its return)
EstimateIndexCost(scope, folderPath) ==
  /\ budget > 0
  /\ budget' = budget - 1
  /\ calls' = Append(calls,
                EstimateAt([op |-> "estimate", pc |-> "start",
                            files |-> getFilesInScope(vault, scope, folderPath),
                            i |-> 0, totalCharacters |-> 0, result |-> Null]))
  /\ last' = [op |-> "estimateIndexCost", call |-> Len(calls) + 1]
  /\ UNCHANGED <<concepts, uuidIndex, dirty, loaded, minted, firstId, registryFile,
                 savedIds, tagVars, idxVars>>

\* await this.vault.read(file) of estimateIndexCost returns, or throws and the
\* call throws with it
ResumeEstimateRead(id, ok) ==
  /\ id \in DOMAIN calls
  /\ calls[id].op = "estimate"
  /\ calls[id].pc = "read"
  /\ LET c == calls[id]
         file == FileAt(vault, c.files[c.i + 1])
     IN /\ ok \/ file.flaky
        /\ calls' = [calls EXCEPT ![id] =
                       IF ok
                       THEN EstimateAt([c EXCEPT !.i = @ + 1,
                                                 !.totalCharacters = @ + Length(file.content)])
                       ELSE [c EXCEPT !.pc = "threw"]]
  /\ last' = [op |-> "estimateRead", call |-> id, ok |-> ok]
  /\ UNCHANGED <<concepts, uuidIndex, dirty, loaded, minted, firstId, registryFile,
                 savedIds, budget, tagVars, idxVars>>

\* a note of the vault
Note(path, text, flaky) == [path |-> path, content |-> text, flaky |-> flaky]

\* a small vault: two notes that share a concept, an excluded note and a note
\* without tags whose read may fail
SmallVault ==
  << Note(<<"n", "/", "A">>, <<"x">> \o createTagBlock(<<TagAxiomA>>), FALSE),
     Note(<<".obsidian", "/", "x">>, createTagBlock(<<TagAxiomA>>), FALSE),
     Note(<<"n", "/", "B">>, createTagBlock(<<TagAxiomA2, TagClaimB>>), FALSE),
     Note(<<"C">>, <<"x">>, TRUE) >>

\* the registry after construction
RegInit ==
  /\ concepts = <<>>
  /\ uuidIndex = <<>>
  /\ dirty = FALSE
  /\ loaded = FALSE
  /\ minted = 0
  /\ firstId = <<>>
  /\ registryFile = NoFile
  /\ calls = <<>>
  /\ savedIds = <<>>

\* no note is being worked on
TagIdle ==
  /\ content = <<>>
  /\ uuidRegistry = <<>>

\* the indexer after construction, over an empty vault
IdxIdle ==
  /\ vault = <<>>
  /\ config = SmallConfig
  /\ abortController = 0
  /\ aborted = <<>>
  /\ currentIndex = NoIndex
  /\ runs = <<>>

Init ==
  /\ RegInit
  /\ TagIdle
  /\ IdxIdle
  /\ budget = MaxOps
  /\ last = [op |-> "new"]

\* any sequence of getOrCreateUUID and addAlias calls on one registry
Next ==
  \/ \E l \in Labels, s \in Sources : GetOrCreateUUID(l, s[1], s[2])
  \/ \E l \in Labels, a \in Labels : AddAlias(l, a)

Spec == Init /\ [][Next]_vars

InitMerge ==
  /\ RegInit
  /\ TagIdle
  /\ IdxIdle
  /\ budget = MaxMergeOps
  /\ last = [op |-> "new"]

\* any sequence of getOrCreateUUID, addAlias and mergeConcepts calls
NextMerge ==
  \/ \E l \in Labels, s \in Sources : GetOrCreateUUID(l, s[1], s[2])
  \/ \E l \in Labels, a \in Labels : AddAlias(l, a)
  \/ \E k \in Labels, m \in Labels : MergeConcepts(k, m)

SpecMerge == InitMerge /\ [][NextMerge]_vars

InitRoundTrip ==
  /\ RegInit
  /\ content \in CleanDocs
  /\ uuidRegistry = <<>>
  /\ IdxIdle
  /\ budget = MaxWrites
  /\ last = [op |-> "new"]

\* any sequence of writeTags calls on a note
NextTag ==
  \E tags \in TagSets, append \in BOOLEAN : WriteTags(tags, append)

SpecRoundTrip == InitRoundTrip /\ [][NextTag]_vars

InitTag ==
  /\ RegInit
  /\ content \in CleanDocs \cup StrayDocs
  /\ uuidRegistry = <<>>
  /\ IdxIdle
  /\ budget = MaxWrites
  /\ last = [op |-> "new"]

SpecTag == InitTag /\ [][NextTag]_vars

InitDoc ==
  /\ RegInit
  /\ content \in CleanDocs \cup StrayDocs \cup LooseDocs
  /\ uuidRegistry = <<>>
  /\ IdxIdle
  /\ budget = MaxDocOps
  /\ last = [op |-> "new"]

\* write, remove and update calls on one note
NextDoc ==
  \/ \E tags \in DocTagSets, append \in BOOLEAN : WriteTags(tags, append)
  \/ \E uuidsToRemove \in {{<<"u1">>}, {<<"u1">>, <<"u2">>}} : RemoveTags(uuidsToRemove)
  \/ \E uuid \in {<<"u1">>, <<"u2">>}, updates \in DocUpdates : UpdateTag(uuid, updates)

SpecDoc == InitDoc /\ [][NextDoc]_vars

InitText ==
  /\ RegInit
  /\ content \in Texts
  /\ uuidRegistry = <<>>
  /\ IdxIdle
  /\ budget = MaxRemoves
  /\ last = [op |-> "new"]

NextText == RemoveTagBlock

SpecText == InitText /\ [][NextText]_vars

\* bound on the number of registry and buildIndex calls where both are made
MaxAliasOps == 3

TagAxiomB == [type |-> <<"Axiom">>, uuid |-> <<"u1">>, label |-> <<"b">>,
              parentUuid |-> Null, customType |-> NoString]

\* a note whose only tag is labelled "a", one whose only tag is labelled "b"
\* and carries the same id, and a note without tags
AliasVault ==
  << Note(<<"docA">>, <<"x">> \o createTagBlock(<<TagAxiomA>>), FALSE),
     Note(<<"docB">>, createTagBlock(<<TagAxiomB>>), FALSE),
     Note(<<"C">>, <<"x">>, FALSE) >>

InitAlias ==
  /\ RegInit
  /\ TagIdle
  /\ vault = AliasVault
  /\ config = SmallConfig
  /\ abortController = 0
  /\ aborted = <<>>
  /\ currentIndex = NoIndex
  /\ runs = <<>>
  /\ budget = MaxAliasOps
  /\ last = [op |-> "new"]

\* registry calls and buildIndex calls over the same vault
NextAlias ==
  \/ \E label \in {<<"a">>, <<"b">>}, source \in Sources :
       GetOrCreateUUID(label, source[1], source[2])
  \/ \E label, alias \in {<<"a">>, <<"b">>} : AddAlias(label, alias)
  \/ BuildIndex("vault", <<>>)
  \/ \E id \in DOMAIN runs : ResumeRead(id, TRUE)
  \/ \E id \in DOMAIN runs : ResumeSleep(id)

SpecAlias == InitAlias /\ [][NextAlias]_vars

\* bound on the number of buildIndex calls on the larger vaults
MaxScanCalls == 2

TagClaimBC == [type |-> <<"Claim">>, uuid |-> <<"u4">>, label |-> <<"b", " ", " ", "c">>,
               parentUuid |-> Null, customType |-> NoString]
TagAxiomC == [type |-> <<"Axiom">>, uuid |-> <<"u5">>, label |-> <<"c">>,
              parentUuid |-> Null, customType |-> NoString]

\* a larger vault: four notes with tags (n/a and n/b share "a", n/b and m/c
\* share "b c", m/x shares nothing), a note in an excluded folder, and a note
\* without tags whose read may fail
LargeVault ==
  << Note(<<"n", "/", "a">>, <<"x">> \o createTagBlock(<<TagAxiomA>>), FALSE),
     Note(<<"Trash", "/", "x">>, createTagBlock(<<TagAxiomA>>), FALSE),
     Note(<<"n", "/", "b">>, createTagBlock(<<TagAxiomA2, TagClaimB>>), FALSE),
     Note(<<"m", "/", "c">>, createTagBlock(<<TagClaimBC>>), FALSE),
     Note(<<"c">>, <<"x">>, TRUE),
     Note(<<"m", "/", "x">>, createTagBlock(<<TagAxiomC>>), FALSE) >>

\* the configurations the indexer is constructed with
ScanConfigs ==
  { [maxFiles |-> f, maxRelationFiles |-> r, batchSize |-> BatchSize] :
      f \in {MaxFiles, MaxFiles + 3}, r \in {MaxRelationFiles, MaxRelationFiles + 2} }

InitScan ==
  /\ RegInit
  /\ TagIdle
  /\ vault \in {SmallVault, LargeVault}
  /\ config \in ScanConfigs
  /\ abortController = 0
  /\ aborted = <<>>
  /\ currentIndex = NoIndex
  /\ runs = <<>>
  /\ budget = MaxScanCalls
  /\ last = [op |-> "new"]

\* buildIndex calls that are left to run to their end
NextScan ==
  \/ \E scope \in {<<"vault", <<>>>>, <<"folder", <<"n">>>>} : BuildIndex(scope[1], scope[2])
  \/ \E id \in DOMAIN runs, ok \in BOOLEAN : ResumeRead(id, ok)
  \/ \E id \in DOMAIN runs : ResumeSleep(id)

SpecScan == InitScan /\ [][NextScan]_vars

\* a vault whose tagged notes may fail to be read: n/a and n/b share "a", n/b
\* and m/c share "b c"
FlakyVault ==
  << Note(<<"n", "/", "a">>, <<"x">> \o createTagBlock(<<TagAxiomA>>), TRUE),
     Note(<<"n", "/", "b">>, createTagBlock(<<TagAxiomA2, TagClaimB>>), TRUE),
     Note(<<"m", "/", "c">>, createTagBlock(<<TagClaimBC>>), TRUE) >>

\* bound on the number of buildIndex calls in one behaviour of SpecSkip
MaxSkipCalls == 1

\* configurations with batches of one, two and three files
SkipConfigs ==
  { [maxFiles |-> MaxFiles, maxRelationFiles |-> r, batchSize |-> b] :
      r \in {MaxRelationFiles, MaxRelationFiles + 2}, b \in 1..(BatchSize + 1) }

InitSkip ==
  /\ RegInit
  /\ TagIdle
  /\ vault = FlakyVault
  /\ config \in SkipConfigs
  /\ abortController = 0
  /\ aborted = <<>>
  /\ currentIndex = NoIndex
  /\ runs = <<>>
  /\ budget = MaxSkipCalls
  /\ last = [op |-> "new"]

\* buildIndex over notes any of which may fail to be read
SpecSkip == InitSkip /\ [][NextScan]_vars

\* bound on the length of the generated labels, and on the buildIndex calls
\* in one behaviour of SpecNormalize
MaxLabelLen == 2
MaxNormalizeCalls == 1

\* the characters labels are made of: letters in both cases, a space, a
\* hyphen and a punctuation mark
LabelChars == {"a", "A", "b", " ", "-", "!"}

RECURSIVE LabelsUpTo(_)
LabelsUpTo(n) ==
  IF n = 0 THEN {<<>>}
  ELSE LabelsUpTo(n - 1) \cup {l \o <<c>> : l \in LabelsUpTo(n - 1), c \in LabelChars}

\* the labels of the tags: every short label, and two longer ones with a
\* mark after a space and with a hyphen between letters
TagLabels ==
  (LabelsUpTo(MaxLabelLen) \ {<<>>}) \cup {<<"a", " ", "!">>, <<"a", "-", "b">>}

\* an Axiom tag with a label
TagLabelled(uuid, label) ==
  [type |-> <<"Axiom">>, uuid |-> <<uuid>>, label |-> label,
   parentUuid |-> Null, customType |-> NoString]

\* a vault of two notes with one tag each
PairVault(label1, label2) ==
  << Note(<<"n", "/", "a">>, createTagBlock(<<TagLabelled("u1", label1)>>), FALSE),
     Note(<<"n", "/", "b">>, createTagBlock(<<TagLabelled("u2", label2)>>), FALSE) >>

InitNormalize ==
  /\ RegInit
  /\ TagIdle
  /\ vault \in {PairVault(label1, label2) : label1, label2 \in TagLabels}
  /\ config = [SmallConfig EXCEPT !.batchSize = 1]
  /\ abortController = 0
  /\ aborted = <<>>
  /\ currentIndex = NoIndex
  /\ runs = <<>>
  /\ budget = MaxNormalizeCalls
  /\ last = [op |-> "new"]

\* buildIndex over the two notes
NextNormalize ==
  \/ BuildIndex("vault", <<>>)
  \/ \E id \in DOMAIN runs : ResumeRead(id, TRUE)
  \/ \E id \in DOMAIN runs : ResumeSleep(id)

SpecNormalize == InitNormalize /\ [][NextNormalize]_vars

\* bound on the number of registry calls where the registry file is involved
MaxPersistOps == 3

\* an entry as a registry file holds it
FileEntry(uuid, label, aliases) ==
  [uuid |-> uuid, label |-> label, normalizedLabel |-> label, type |-> "Axiom",
   firstSeenFile |-> "docA", aliases |-> aliases]

\* registry files written by this version and by an older one
SavedFile ==
  Stringify(<<FileEntry("u8", <<"a">>, <<>>)>>, (<<>> @@ ("u8" :> <<"a">>)))
OldFile == [SavedFile EXCEPT !.version = "0.9.0"]

\* texts handed to importJSON
Imports ==
  { [concepts |-> <<FileEntry("u9", <<"a">>, <<>>)>>],
    [concepts |-> <<FileEntry("u8", <<"b">>, <<<<"a">>>>)>>] }

InitPersist ==
  /\ concepts = <<>>
  /\ uuidIndex = <<>>
  /\ dirty = FALSE
  /\ loaded = FALSE
  /\ minted = 0
  /\ firstId = <<>>
  /\ registryFile \in {NoFile, SavedFile, OldFile, CorruptFile}
  /\ calls = <<>>
  /\ savedIds = <<>>
  /\ TagIdle
  /\ IdxIdle
  /\ budget = MaxPersistOps
  /\ last = [op |-> "new"]

\* the registry's calls, load and save with their awaits included
NextPersist ==
  \/ \E label \in {<<"a">>, <<"b">>} : GetOrCreateUUID(label, "Axiom", "docA")
  \/ \E label, alias \in {<<"a">>, <<"b">>} : AddAlias(label, alias)
  \/ \E keepLabel, mergeLabel \in {<<"a">>, <<"b">>} : MergeConcepts(keepLabel, mergeLabel)
  \/ \E label \in {<<"a">>, <<"b">>} : UpdateMetadata(label, ("note" :> "n1"))
  \/ \E imported \in Imports, overwrite \in BOOLEAN : ImportJSON(imported, overwrite)
  \/ Clear
  \/ Load
  \/ Save
  \/ \E id \in DOMAIN calls, ok \in BOOLEAN : FinishRead(id, ok)
  \/ \E id \in DOMAIN calls, ok \in BOOLEAN : FinishSave(id, ok)

SpecPersist == InitPersist /\ [][NextPersist]_vars

\* bound on the number of registry calls in one behaviour of SpecReload
MaxReloadOps == 4

InitReload ==
  /\ concepts = <<>>
  /\ uuidIndex = <<>>
  /\ dirty = FALSE
  /\ loaded = FALSE
  /\ minted = 0
  /\ firstId = <<>>
  /\ registryFile \in {NoFile, SavedFile}
  /\ calls = <<>>
  /\ savedIds = <<>>
  /\ TagIdle
  /\ IdxIdle
  /\ budget = MaxReloadOps
  /\ last = [op |-> "new"]

\* the calls that resolve and link labels, with save and load around them
NextReload ==
  \/ \E label \in {<<"a">>, <<"b">>} : GetOrCreateUUID(label, "Axiom", "docA")
  \/ \E label, alias \in {<<"a">>, <<"b">>} : AddAlias(label, alias)
  \/ \E keepLabel, mergeLabel \in {<<"a">>, <<"b">>} : MergeConcepts(keepLabel, mergeLabel)
  \/ Load
  \/ Save
  \/ \E id \in DOMAIN calls, ok \in BOOLEAN : FinishRead(id, ok)
  \/ \E id \in DOMAIN calls, ok \in BOOLEAN : FinishSave(id, ok)

SpecReload == InitReload /\ [][NextReload]_vars

\* bound on the number of calls in one behaviour of SpecFailures
MaxFailureCalls == 2

\* the progress callbacks handed to buildIndex: none, one that returns, and
\* ones that throw at their first or second call
ProgressCallbacks == {NoProgress, Progress(0), Progress(1), Progress(2)}

InitFailures ==
  /\ concepts = <<>>
  /\ uuidIndex = <<>>
  /\ dirty = FALSE
  /\ loaded = FALSE
  /\ minted = 0
  /\ firstId = <<>>
  /\ registryFile \in {NoFile, SavedFile, CorruptFile}
  /\ calls = <<>>
  /\ savedIds = <<>>
  /\ TagIdle
  /\ vault = SmallVault
  /\ config = SmallConfig
  /\ abortController = 0
  /\ aborted = <<>>
  /\ currentIndex = NoIndex
  /\ runs = <<>>
  /\ budget = MaxFailureCalls
  /\ last = [op |-> "new"]

\* buildIndex, estimateIndexCost, load and save, with reads and writes that fail
\* and progress callbacks that throw
NextFailures ==
  \/ \E onProgress \in ProgressCallbacks : BuildIndexProgress("vault", <<>>, onProgress)
  \/ \E id \in DOMAIN runs, ok \in BOOLEAN : ResumeRead(id, ok)
  \/ \E id \in DOMAIN runs : ResumeSleep(id)
  \/ EstimateIndexCost("vault", <<>>)
  \/ \E id \in DOMAIN calls, ok \in BOOLEAN : ResumeEstimateRead(id, ok)
  \/ \E label \in {<<"a">>} : GetOrCreateUUID(label, "Axiom", "docA")
  \/ Load
  \/ Save
  \/ \E id \in DOMAIN calls, ok \in BOOLEAN : FinishRead(id, ok)
  \/ \E id \in DOMAIN calls, ok \in BOOLEAN : FinishSave(id, ok)

SpecFailures == InitFailures /\ [][NextFailures]_vars

InitIndex ==
  /\ RegInit
  /\ TagIdle
  /\ vault = SmallVault
  /\ config = SmallConfig
  /\ abortController = 0
  /\ aborted = <<>>
  /\ currentIndex = NoIndex
  /\ runs = <<>>
  /\ budget = MaxCalls
  /\ last = [op |-> "new"]

\* buildIndex and abort calls by the host, interleaved with the runs' awaits
NextIndex ==
  \/ \E scope \in {<<"vault", <<>>>>, <<"folder", <<"n">>>>} : BuildIndex(scope[1], scope[2])
  \/ Abort
  \/ \E id \in DOMAIN runs, ok \in BOOLEAN : ResumeRead(id, ok)
  \/ \E id \in DOMAIN runs : ResumeSleep(id)

SpecIndex == InitIndex /\ [][NextIndex]_vars

(***************************************************************************)
(* Claims                                                                  *)
(***************************************************************************)

\* C1: every getOrCreateUUID call returns the id that the first call with the
\* same normalized key returned, and only that first call creates an entry.
C1_SameIdEveryCall ==
  last.op = "getOrCreateUUID" =>
    /\ last.ret = firstId[last.key]
    /\ last.created => last.first

\* C8: after a successful mergeConcepts(A, B) of two existing concepts,
\* getUUID(B) is the id getUUID(A) returned before the merge.
C8_MergedLabelResolvesToKept ==
  (last.op = "mergeConcepts" /\ last.ret /\ last.keepUuid # last.mergeUuid) =>
    getUUID(concepts, last.mergeLabel) = last.keepUuid

\* C9: after mergeConcepts(keepLabel, mergeLabel) returns true, keepLabel's
\* aliases hold mergeLabel's key and every alias mergeLabel had, without
\* duplicates, mergeLabel's key has no entry and getByUUID of its former id
\* is undefined; when it returns false the registry is unchanged.
C9_MergeContract ==
  last.op = "mergeConcepts" =>
    LET keepNorm == RegNormalizeLabel(last.keepLabel)
        mergeNorm == RegNormalizeLabel(last.mergeLabel)
        keepNow == Lookup(concepts, keepNorm)
        mergedBefore == Lookup(last.conceptsBefore, mergeNorm)
    IN IF last.ret
       THEN /\ keepNow # NoEntry
            /\ InSeq(mergeNorm, keepNow.aliases)
            /\ \A i \in DOMAIN mergedBefore.aliases :
                  InSeq(mergedBefore.aliases[i], keepNow.aliases)
            /\ \A i, j \in DOMAIN keepNow.aliases :
                  keepNow.aliases[i] = keepNow.aliases[j] => i = j
            /\ Lookup(concepts, mergeNorm) = NoEntry
            /\ getByUUID(concepts, uuidIndex, last.mergeUuid) = NoEntry
       ELSE /\ concepts = last.conceptsBefore
            /\ uuidIndex = last.uuidIndexBefore
            /\ dirty = last.dirtyBefore

\* the tags of a list as a multiset
RECURSIVE BagOf(_)
BagOf(tags) ==
  IF tags = <<>> THEN <<>>
  ELSE LET rest == BagOf(Tail(tags))
           t == Head(tags)
       IN Put(rest, t, IF t \in DOMAIN rest THEN rest[t] + 1 ELSE 1)

\* C2: the tags decoded from a note after writeTags in replace mode are exactly
\* the tags written, as a multiset.
C2_ReplaceRoundTrip ==
  (last.op = "writeTags" /\ ~last.append) =>
    BagOf(TagsOf(parseTags(content))) = BagOf(last.tags)

SetOf(tags) == {tags[k] : k \in DOMAIN tags}

\* the tags inside the note's tag block
BlockTags(text) ==
  IF extractTagBlock(text) = Null THEN <<>>
  ELSE TagsOf(parseTags(extractTagBlock(text)))

\* C10: writing the same tags in merge mode a second time leaves the note's tag
\* set as the first write left it, and the tag block holds no id twice.
C10_MergeTwiceIsMergeOnce ==
  (/\ last.op = "writeTags" /\ last.append
   /\ last.prev.op = "writeTags" /\ last.prev.append
   /\ last.prev.tags = last.tags) =>
    /\ SetOf(TagsOf(parseTags(content))) = SetOf(last.prev.result)
    /\ \A i, j \in DOMAIN BlockTags(content) :
         BlockTags(content)[i].uuid = BlockTags(content)[j].uuid => i = j


\* C3: a run that was in flight when buildIndex was called again has its
\* cancellation flag set from that call on, and returns with wasAborted true
C3_EarlierRunAborted ==
  \A id \in DOMAIN runs :
    runs[id].superseded =>
      /\ aborted[id]
      /\ runs[id].pc = "done" => runs[id].result.metadata.wasAborted

\* C4: a run that was in flight when abort() was called returns a snapshot
\* whose metadata.wasAborted is true
C4_AbortedRunSaysSo ==
  \A id \in DOMAIN runs :
    (runs[id].abortReq.set /\ runs[id].pc = "done") =>
      runs[id].result.metadata.wasAborted

\* C5: the snapshot of a run whose scan was left on the cancellation flag
\* has totalFiles equal to the number of documents the run scanned
C5_TotalFilesIsScannedCount ==
  \A id \in DOMAIN runs :
    (/\ runs[id].pc = "done"
     /\ runs[id].result.metadata.wasAborted
     /\ runs[id].sawAbortInScan) =>
      runs[id].result.metadata.totalFiles = runs[id].scanned

\* C6: after abort() was called during a run, the run reads no document
\* beyond the batch that was current at the call and compares no row beyond
\* the one that was current at the call
C6_StopsWithinOneBatch ==
  \A id \in DOMAIN runs :
    runs[id].abortReq.set =>
      IF runs[id].abortReq.pc = "relsleep"
      THEN runs[id].rowsCompared = runs[id].abortReq.rows
      ELSE /\ runs[id].pc = "read" => runs[id].i < runs[id].abortReq.batchEnd
           /\ runs[id].scanned <= runs[id].abortReq.batchEnd

\* C7: a complete index built after addAlias linked the labels "a" and "b"
\* relates the note whose only tag is labelled "a" and the note whose only
\* tag is labelled "b" with strength 1.0
C7_AliasLinkedLabelsRelated ==
  \A id \in DOMAIN runs :
    (/\ runs[id].pc = "done"
     /\ ~runs[id].result.metadata.wasAborted
     /\ runs[id].linksAtStart \cap {<< <<"a">>, <<"b">> >>, << <<"b">>, <<"a">> >>} # {}) =>
      \E k \in DOMAIN runs[id].result.relations :
        LET rel == runs[id].result.relations[k]
        IN /\ {rel.sourceFile, rel.targetFile} = {<<"docA">>, <<"docB">>}
           /\ rel.relationshipStrength[1] = rel.relationshipStrength[2]


\* the tags the notes and the calls of the specifications are made of
KnownTags == {TagAxiomA, TagClaimB, TagCustomC, TagAxiomA2}

\* the lines of the note's tag block between the two marker lines
BlockLines(text) ==
  IF extractTagBlock(text) = Null THEN <<>>
  ELSE LET lines == SplitLines(extractTagBlock(text))
       IN SubSeq(lines, 2, Len(lines) - 1)

\* the ids of the tags written on these lines
IdsOnLines(lines) ==
  {t.uuid : t \in {k \in KnownTags : \E j \in DOMAIN lines : lines[j] = formatTag(k)}}

\* C11: after writeTags in merge mode the tag block holds the lines it held
\* before, unchanged and in the same order, followed by the incoming tags
\* whose id was not in the block, and nothing else
C11_MergeKeepsBlockAppendsNew ==
  (last.op = "writeTags" /\ last.append) =>
    LET old == BlockLines(last.before)
        fresh == SelectSeq(last.tags, LAMBDA t : t.uuid \notin IdsOnLines(old))
    IN BlockLines(content) = old \o [k \in DOMAIN fresh |-> formatTag(fresh[k])]


\* C12: the text removeTagBlock returns is left as it is by removeTagBlock
C12_RemoveTwiceIsRemoveOnce ==
  last.op = "removeTagBlock" => removeTagBlock(content) = content


\* C13: writing a block of the same tags in place of the note's block a
\* second time (removeTagBlock, then the fresh block appended) gives the text
\* the first time gave
C13_ReplaceTwiceIsReplaceOnce ==
  (/\ last.op = "writeTags" /\ ~last.append
   /\ last.prev.op = "writeTags" /\ ~last.prev.append
   /\ last.prev.tags = last.tags) =>
    content = last.before

\* how often an atom occurs in a text
Count(text, a) == Cardinality({p \in DOMAIN text : text[p] = a})

\* C14: a note that had at most one start marker and one end marker before
\* the write, remove and update calls has at most one of each after them
C14_AtMostOneBlock ==
  /\ Count(content, START_MARK) <= 1
  /\ Count(content, END_MARK) <= 1

\* the text in front of the note's tag block (the blank line that opens the
\* block belongs to the block), and the text after it
BeforeBlock(text) ==
  LET anchored == IndexOf(text, <<"\n", "\n", START_MARK>>)
      start == IndexOf(text, <<START_MARK>>)
  IN IF start = 0 THEN text
     ELSE IF anchored # 0 /\ anchored + 2 = start THEN SubSeq(text, 1, anchored - 1)
     ELSE SubSeq(text, 1, start - 1)
AfterBlock(text) ==
  LET start == IndexOf(text, <<START_MARK>>)
      end == IndexOf(text, <<END_MARK>>)
  IN IF start = 0 \/ end = 0 THEN <<>>
     ELSE SubSeq(text, end + 1, Len(text))

\* C15: a write, remove or update call leaves the text in front of the tag
\* block and the text after it as they were
C15_TextOutsideBlockKept ==
  last.op \in {"writeTags", "removeTags", "updateTag"} =>
    /\ BeforeBlock(content) = BeforeBlock(last.before)
    /\ AfterBlock(content) = AfterBlock(last.before)


\* the normalized labels of the tags the index holds for its k-th file
LabelsOf(index, k) ==
  {IdxNormalizeLabel(index.fileIndex[k].tags[j].label) : j \in DOMAIN index.fileIndex[k].tags}

\* the relations of the index between its k-th and its l-th file, either way round
RelationsOf(index, k, l) ==
  {j \in DOMAIN index.relations :
     \/ /\ index.relations[j].sourceFile = index.fileIndex[k].path
        /\ index.relations[j].targetFile = index.fileIndex[l].path
     \/ /\ index.relations[j].sourceFile = index.fileIndex[l].path
        /\ index.relations[j].targetFile = index.fileIndex[k].path}

\* the relations of a complete index are one per pair of files that share a label
PairsRelatedOnce(index) ==
  \A k, l \in DOMAIN index.fileIndex :
    LET shared == LabelsOf(index, k) \cap LabelsOf(index, l)
        larger == Max(Cardinality(LabelsOf(index, k)), Cardinality(LabelsOf(index, l)))
    IN /\ k = l => RelationsOf(index, k, l) = {}
       /\ (k # l /\ shared = {}) => RelationsOf(index, k, l) = {}
       /\ (k # l /\ shared # {}) =>
            /\ Cardinality(RelationsOf(index, k, l)) = 1
            /\ \A j \in RelationsOf(index, k, l) :
                 /\ SetOf(index.relations[j].sharedConcepts) = shared
                 /\ index.relations[j].relationshipStrength = <<Cardinality(shared), larger>>

\* C16: in the index of a run that was not aborted and did not skip the
\* relations, two different files that share a normalized label have exactly
\* one relation, in one direction only, with strength |shared| / max of the
\* two label counts; files that share none, and a file with itself, have none
C16_PairsRelatedOnce ==
  \A id \in DOMAIN runs :
    (/\ runs[id].pc = "done"
     /\ ~runs[id].result.metadata.wasAborted
     /\ ~runs[id].result.metadata.skippedRelations) =>
      PairsRelatedOnce(runs[id].result)

\* a complete index over four tagged files with two relations
C16_Witness ==
  \E id \in DOMAIN runs :
    /\ runs[id].pc = "done"
    /\ ~runs[id].result.metadata.wasAborted
    /\ ~runs[id].result.metadata.skippedRelations
    /\ Len(runs[id].result.relations) = 2
    /\ Cardinality({k \in DOMAIN runs[id].result.fileIndex :
                      runs[id].result.fileIndex[k].tags # <<>>}) = 4


\* the files of an index that have at least one tag
TaggedFiles(index) == {k \in DOMAIN index.fileIndex : index.fileIndex[k].tags # <<>>}

\* C17: the index of a run that was not aborted has its relations computed
\* exactly when the files with tags are at most maxRelationFiles; otherwise
\* skippedRelations is set, the relation list is empty and a warning is kept
C17_RelationsSkippedAboveCeiling ==
  \A id \in DOMAIN runs :
    (runs[id].pc = "done" /\ ~runs[id].result.metadata.wasAborted) =>
      LET index == runs[id].result
      IN IF Cardinality(TaggedFiles(index)) <= config.maxRelationFiles
         THEN /\ ~index.metadata.skippedRelations
              /\ PairsRelatedOnce(index)
         ELSE /\ index.metadata.skippedRelations
              /\ index.relations = <<>>
              /\ InSeq("Skipped cross-file relations", index.metadata.warnings)

\* a complete index of more files with tags than maxRelationFiles, some of
\* which share a label
C17_Witness ==
  \E id \in DOMAIN runs :
    /\ runs[id].pc = "done"
    /\ ~runs[id].result.metadata.wasAborted
    /\ runs[id].result.metadata.skippedRelations
    /\ Cardinality(TaggedFiles(runs[id].result)) > config.maxRelationFiles
    /\ \E k, l \in TaggedFiles(runs[id].result) :
         k # l /\ LabelsOf(runs[id].result, k) \cap LabelsOf(runs[id].result, l) # {}


\* the labels of the concepts of an index that occur in a file with its k-th concept
CoOccurring(index, k) ==
  {index.concepts[o].label : o \in {j \in DOMAIN index.concepts :
     /\ j # k
     /\ FilesOf(index.concepts[j]) \cap FilesOf(index.concepts[k]) # {}}}

\* C18: in the index of a run that was not aborted, with at most 500 concepts,
\* every concept's relatedConcepts are the concepts that occur in a file with
\* it (at most 20 of them), whether the relations were computed or skipped;
\* with more than 500 concepts every relatedConcepts list is empty
C18_RelatedConceptsComputed ==
  \A id \in DOMAIN runs :
    (runs[id].pc = "done" /\ ~runs[id].result.metadata.wasAborted) =>
      LET index == runs[id].result
      IN \A k \in DOMAIN index.concepts :
           LET related == index.concepts[k].relatedConcepts
           IN IF Len(index.concepts) <= RelatedConceptsCeiling
              THEN /\ SetOf(related) \subseteq CoOccurring(index, k)
                   /\ Len(related) = Min(Cardinality(CoOccurring(index, k)),
                                         RelatedConceptsMax)
              ELSE related = <<>>


\* the files of the vault that are in a run's scope and not excluded
InScopeFiles(r) ==
  {k \in DOMAIN vault :
     /\ (r.scope = "folder" /\ r.folderPath # <<>>) => StartsWith(vault[k].path, r.folderPath)
     /\ \A pattern \in ExcludePatterns :
          ~Includes(ToLowerCase(vault[k].path), ToLowerCase(pattern))}

\* C19: a run scans at most maxFiles files and no excluded file, and when
\* more than maxFiles files were in scope its snapshot's metadata has a
\* warning about the truncation
C19_TruncationRecorded ==
  \A id \in DOMAIN runs :
    /\ Len(runs[id].files) <= config.maxFiles
    /\ \A k \in DOMAIN runs[id].files :
         \A pattern \in ExcludePatterns :
           ~Includes(ToLowerCase(runs[id].files[k]), ToLowerCase(pattern))
    /\ (runs[id].pc = "done" /\ Cardinality(InScopeFiles(runs[id])) > config.maxFiles) =>
         \E w \in DOMAIN runs[id].result.metadata.warnings :
           runs[id].result.metadata.warnings[w] \notin
             {"Indexing was aborted by user", "Skipped cross-file relations"}


\* the last call was a registry call that changed the registry's data
ChangedData ==
  \/ last.op = "getOrCreateUUID" /\ last.created
  \/ last.op = "addAlias" /\ last.added
  \/ last.op \in {"mergeConcepts", "updateMetadata"} /\ last.ret
  \/ last.op = "importJSON" /\ last.ret > 0
  \/ last.op = "clear"

\* C20: the registry is dirty after every call that changed its data, and a
\* save() called on a registry that is not dirty writes no file, loaded or not
C20_DirtyTracking ==
  /\ ChangedData => dirty
  /\ \A id \in DOMAIN calls :
       (calls[id].op = "save" /\ calls[id].caller = 0) => calls[id].dirtyAtCall


\* C21: once a save() has completed without an error and the registry has been
\* loaded from the registry file, every label the registry resolved when that
\* save() was called (by primary key or by alias) resolves to the same id, so
\* that getOrCreateUUID returns it and creates nothing
C21_RoundTripKeepsIds ==
  (last.op = "read" /\ last.ok /\ registryFile.exists /\ registryFile.json) =>
    \A k \in DOMAIN savedIds : Resolve(concepts, k) = savedIds[k]


\* the primary keys of a registry
KeysOf(cs) == {cs[i].normalizedLabel : i \in DOMAIN cs}

\* C22 as stated: no call other than clear deletes an entry; every primary key
\* that had an entry before a call has one after it
C22_NeverDeletedButByClear ==
  [][last'.op # "clear" => KeysOf(concepts) \subseteq KeysOf(concepts')]_vars

\* C22 amended: an entry is deleted only by clear, by a merge that returns
\* true (the entry under mergeLabel's key and no other), or by a load, which
\* replaces the entries by those of the registry file
C22_DeletedOnlyByMergeLoadClear ==
  [][\A k \in KeysOf(concepts) \ KeysOf(concepts') :
       \/ last'.op \in {"clear", "load", "read"}
       \/ /\ last'.op = "mergeConcepts"
          /\ last'.ret
          /\ k = RegNormalizeLabel(last'.mergeLabel)]_vars

\* a merge of two entries returned true: the kept key has its entry, the
\* merged key has none
C22_Witness ==
  /\ last.op = "mergeConcepts"
  /\ last.ret
  /\ RegNormalizeLabel(last.keepLabel) # RegNormalizeLabel(last.mergeLabel)
  /\ RegNormalizeLabel(last.keepLabel) \in KeysOf(concepts)
  /\ RegNormalizeLabel(last.mergeLabel) \notin KeysOf(concepts)


\* C23: no call of buildIndex, estimateIndexCost, load or save throws, whatever
\* read or write fails and whatever the progress callback does, and a load of
\* a registry file that is not JSON leaves the registry empty
C23_NothingThrows ==
  /\ \A id \in DOMAIN runs : runs[id].pc # "threw"
  /\ \A id \in DOMAIN calls : calls[id].pc # "threw"
  /\ (last.op = "read" /\ "call" \in DOMAIN last /\ ~registryFile.json) =>
       concepts = <<>> /\ uuidIndex = <<>>


\* the paths of the files whose tags or concept occurrences an index holds, or
\* that one of its relations names
ContributingFiles(index) ==
  {index.fileIndex[k].path : k \in DOMAIN index.fileIndex}
    \cup UNION {FilesOf(index.concepts[k]) : k \in DOMAIN index.concepts}
    \cup {index.relations[k].sourceFile : k \in DOMAIN index.relations}
    \cup {index.relations[k].targetFile : k \in DOMAIN index.relations}

\* C24: in a run whose scan was not cut short by an abort, every file in scope
\* was read, in the order of the enumeration, whether or not earlier reads
\* failed; the tags of every file read are in the snapshot, and a file whose
\* read failed is in no part of the snapshot
C24_FailedReadSkipped ==
  \A id \in DOMAIN runs :
    (runs[id].pc = "done" /\ ~runs[id].sawAbortInScan) =>
      LET r == runs[id]
      IN /\ [k \in DOMAIN r.reads |-> r.reads[k].path] = r.files
         /\ \A k \in DOMAIN r.reads :
              IF r.reads[k].ok
              THEN \E j \in DOMAIN r.result.fileIndex :
                     /\ r.result.fileIndex[j].path = r.reads[k].path
                     /\ r.result.fileIndex[j].tags =
                          TagsOf(parseTags(FileAt(vault, r.reads[k].path).content))
              ELSE r.reads[k].path \notin ContributingFiles(r.result)

\* a run has returned after a read that failed on a tagged note, with the two
\* notes read after it in its snapshot and related
C24_Witness ==
  \E id \in DOMAIN runs :
    /\ runs[id].pc = "done"
    /\ ~runs[id].sawAbortInScan
    /\ Len(runs[id].reads) = 3
    /\ ~runs[id].reads[1].ok
    /\ runs[id].reads[2].ok
    /\ runs[id].reads[3].ok
    /\ Len(runs[id].result.fileIndex) = 2
    /\ Len(runs[id].result.relations) = 1


\* C25: when the write of a save() has succeeded, the entries created, linked
\* or merged since that save() serialized the data are in the file, or the
\* registry is still dirty (load, which also changes the data, left aside)
C25_MutationDuringSaveKept ==
  (/\ last.op = "write"
   /\ last.ok
   /\ \A id \in DOMAIN calls : calls[id].op = "save") =>
     dirty \/ registryFile.concepts = concepts


\* C26: when buildIndex was called while an earlier call was in flight, and
\* every call has returned, the current index is the snapshot of the call
\* made last
C26_LaterRunWins ==
  (/\ \E id \in DOMAIN runs : runs[id].superseded
   /\ \A id \in DOMAIN runs : runs[id].pc = "done") =>
     currentIndex = runs[Len(runs)].result


\* C27: isIndexing() is true exactly while some buildIndex call has neither
\* returned nor been aborted, and after abort() the cancellation flag of every
\* call still in flight is set, the latest one included, whether or not an
\* earlier call has returned in the meantime
C27_IsIndexingWhileRunInFlight ==
  /\ isIndexing <=> \E id \in DOMAIN runs : InFlight(runs[id]) /\ ~aborted[id]
  /\ last.op = "abort" => \A id \in DOMAIN runs : InFlight(runs[id]) => aborted[id]


\* C28: after mergeConcepts(keepLabel, mergeLabel) returns true, keepLabel's
\* key has an entry with the id it had before the call, and getByUUID of that
\* id returns that entry, whether or not the two labels have the same key
C28_MergeKeepsKeptEntry ==
  (last.op = "mergeConcepts" /\ last.ret) =>
    LET kept == Lookup(concepts, RegNormalizeLabel(last.keepLabel))
    IN /\ kept # NoEntry
       /\ kept.uuid = last.keepUuid
       /\ getByUUID(concepts, uuidIndex, last.keepUuid) = kept


\* C29: the reverse index and the primary map agree: the id of every entry
\* maps to the entry's key, every id of the reverse index maps to a key whose
\* entry has that id, and no two entries have the same id
C29_IndexesAgree ==
  /\ \A i \in DOMAIN concepts :
       /\ concepts[i].uuid \in DOMAIN uuidIndex
       /\ uuidIndex[concepts[i].uuid] = concepts[i].normalizedLabel
  /\ \A uuid \in DOMAIN uuidIndex : Lookup(concepts, uuidIndex[uuid]).uuid = uuid
  /\ \A i, j \in DOMAIN concepts : concepts[i].uuid = concepts[j].uuid => i = j


\* C30: two labels are one concept of the index (one key of its concept map)
\* exactly when the registry's normalizeLabel gives them the same key
C30_SameConceptSameKey ==
  \A id \in DOMAIN runs :
    (/\ runs[id].pc = "done"
     /\ Len(runs[id].result.fileIndex) = 2
     /\ \A k \in 1..2 : Len(runs[id].result.fileIndex[k].tags) = 1) =>
      LET index == runs[id].result
          label1 == index.fileIndex[1].tags[1].label
          label2 == index.fileIndex[2].tags[1].label
      IN Len(index.concepts) = 1 <=>
           RegNormalizeLabel(label1) = RegNormalizeLabel(label2)

====
